---------------------------- MODULE Spec2Model ----------------------------
(***************************************************************************)
(* Model of leed_inp_phase() (LINPPHASE.C): the phase-shift file loader    *)
(* and its list of already loaded phase shifts.                            *)
(*                                                                         *)
(* Text is modelled character by character: a C string is a sequence of    *)
(* one-character strings.  Real numbers are exact fractions <<n, d>> with  *)
(* d > 0.  Displacements dr[] are integers in units of half the geometric  *)
(* tolerance.                                                              *)
(***************************************************************************)
EXTENDS Integers, Sequences, FiniteSets, TLC

(***************************************************************************)
(* Bounds of the model.                                                    *)
(***************************************************************************)
\* largest number of calls of leed_inp_phase in one run
MaxCalls == 3
\* largest displacement component a caller passes
MaxDr == 2
\* length of the modelled line buffer (stands for STRSZ)
BufLen == 20
\* largest number of energies a file header of the parse inputs declares
MaxEng == 2
\* largest number of phase shifts per line (nl) of the tokenizer inputs
MaxNl == 2

(***************************************************************************)
(* Program constants.                                                      *)
(***************************************************************************)
\* GEO_TOLERANCE in the units of dr (half tolerances)
GEO_TOLERANCE == 2
\* HART = 27.18 eV, as the fraction HART_NUM / HART_DEN
HART_NUM == 2718
HART_DEN == 100
\* a size_t value too large for any file or allocation (>= 2^32 - 1)
Huge == 1000000

(***************************************************************************)
(* Reals as fractions.                                                     *)
(***************************************************************************)
RMul(a, b) == <<a[1] * b[1], a[2] * b[2]>>
REq(a, b) == a[1] * b[2] = b[1] * a[2]
RZero == <<0, 1>>

RECURSIVE Pow10(_)
Pow10(k) == IF k <= 0 THEN 1 ELSE 10 * Pow10(k - 1)

(***************************************************************************)
(* Characters.                                                             *)
(***************************************************************************)
NUL == "NUL"
NL == "\n"
Digits == {"0", "1", "2", "3", "4", "5", "6", "7", "8", "9"}
DigitVal(c) == CASE c = "0" -> 0 [] c = "1" -> 1 [] c = "2" -> 2 [] c = "3" -> 3
                 [] c = "4" -> 4 [] c = "5" -> 5 [] c = "6" -> 6 [] c = "7" -> 7
                 [] c = "8" -> 8 [] c = "9" -> 9
IsSpace(c) == c \in {" ", NL}

\* buf[p] for a C string held in buf; a read behind the modelled memory
\* yields "OOB", which is no character of any text
At(buf, p) == IF p >= 1 /\ p <= Len(buf) THEN buf[p] ELSE "OOB"

\* the C string that starts at position p: the characters before the first NUL
RECURSIVE StrEnd(_, _)
StrEnd(buf, p) == IF At(buf, p) \in {NUL, "OOB"} THEN p ELSE StrEnd(buf, p + 1)

(***************************************************************************)
(* sscanf conversions.  Each returns [ok, val, next]: whether a value was  *)
(* converted, the value, and the position of the first unread character.   *)
(***************************************************************************)
RECURSIVE SkipWs(_, _)
SkipWs(buf, p) == IF IsSpace(At(buf, p)) THEN SkipWs(buf, p + 1) ELSE p

\* the run of digits starting at p: [val, n, next], n the number of digits
RECURSIVE ScanDigits(_, _, _, _)
ScanDigits(buf, p, acc, n) ==
  IF At(buf, p) \in Digits
    THEN ScanDigits(buf, p + 1, 10 * acc + DigitVal(buf[p]), n + 1)
    ELSE [val |-> acc, n |-> n, next |-> p]

\* "%d": white space, an optional sign, digits
ScanIntDigits(neg, p, d) ==
  IF d.n = 0
    THEN [ok |-> FALSE, val |-> 0, next |-> p]
    ELSE [ok |-> TRUE, val |-> IF neg THEN -d.val ELSE d.val, next |-> d.next]

ScanIntSign(buf, p, neg) ==
  ScanIntDigits(neg, p, ScanDigits(buf, IF neg THEN p + 1 ELSE p, 0, 0))

ScanInt(buf, p0) == ScanIntSign(buf, SkipWs(buf, p0), At(buf, SkipWs(buf, p0)) = "-")

\* "%s": the run of non-space characters after leading white space
RECURSIVE ScanWord(_, _, _)
ScanWord(buf, p, acc) ==
  IF IsSpace(At(buf, p)) \/ At(buf, p) \in {NUL, "OOB"}
    THEN [val |-> acc, next |-> p]
    ELSE ScanWord(buf, p + 1, Append(acc, buf[p]))

ScanStrWord(w) == [ok |-> Len(w.val) > 0, val |-> w.val, next |-> w.next]

ScanStr(buf, p0) == ScanStrWord(ScanWord(buf, SkipWs(buf, p0), <<>>))

\* "%le" / "%e": white space, then [-]digits[.digits][e[-]digits].
\* m: the digits of the mantissa as an integer, ex: the decimal exponent
RealValue(m, ex) == IF ex >= 0 THEN <<m * Pow10(ex), 1>> ELSE <<m, Pow10(-ex)>>

\* ip, fp, ep: the digit runs before the point, behind it, and of the exponent
ScanRealResult(p, neg, ip, fp, eneg, ep) ==
  IF ip.n + fp.n = 0
    THEN [ok |-> FALSE, val |-> RZero, next |-> p]
    ELSE [ok |-> TRUE,
          val |-> RealValue(IF neg THEN -fp.val ELSE fp.val,
                            (IF ep.n > 0 THEN (IF eneg THEN -ep.val ELSE ep.val) ELSE 0)
                              - fp.n),
          next |-> IF ep.n > 0 THEN ep.next ELSE fp.next]

ScanRealExp(buf, p, neg, ip, fp, eneg) ==
  ScanRealResult(p, neg, ip, fp, eneg,
                 IF At(buf, fp.next) = "e"
                   THEN ScanDigits(buf, fp.next + (IF eneg THEN 2 ELSE 1), 0, 0)
                   ELSE [val |-> 0, n |-> 0, next |-> fp.next])

ScanRealFrac(buf, p, neg, ip, fp) ==
  ScanRealExp(buf, p, neg, ip, fp,
              At(buf, fp.next) = "e" /\ At(buf, fp.next + 1) = "-")

ScanRealInt(buf, p, neg, ip) ==
  ScanRealFrac(buf, p, neg, ip,
               IF At(buf, ip.next) = "."
                 THEN ScanDigits(buf, ip.next + 1, ip.val, 0)
                 ELSE [val |-> ip.val, n |-> 0, next |-> ip.next])

ScanRealSign(buf, p, neg) ==
  ScanRealInt(buf, p, neg, ScanDigits(buf, IF neg THEN p + 1 ELSE p, 0, 0))

ScanReal(buf, p0) == ScanRealSign(buf, SkipWs(buf, p0), At(buf, SkipWs(buf, p0)) = "-")

(***************************************************************************)
(* The line buffer.  fgets() overwrites the front of linebuffer with the   *)
(* line, its newline and a NUL; what lies behind the NUL is left from      *)
(* earlier lines (or from the uninitialised array).                        *)
(***************************************************************************)
Fgets(linebuffer, line) ==
  line \o <<NL, NUL>> \o SubSeq(linebuffer, Len(line) + 3, Len(linebuffer))

\* the uninitialised linebuffer[STRSZ]: every cell holds the stack's fill
FreshBuffer(fill) == [k \in 1..BufLen |-> fill]

(***************************************************************************)
(* The tokenizer of a phase-shift line (the for loop over i < nl).         *)
(* The two while loops test only for ' ' and '-': neither stops at the     *)
(* newline or the NUL.  A cursor that leaves linebuffer altogether reads   *)
(* foreign memory; the model stops it at the first cell behind the array.  *)
(***************************************************************************)
RECURSIVE SkipSep(_, _)
SkipSep(buf, p) == IF At(buf, p) \in {" ", "-"} THEN SkipSep(buf, p + 1) ELSE p

\* SkipNum as a white-space tokenizer would have it: only a blank ends a numeral
RECURSIVE SkipNumBlank(_, _)
SkipNumBlank(buf, p) ==
  IF p > Len(buf) \/ At(buf, p) = " " THEN p ELSE SkipNumBlank(buf, p + 1)

RECURSIVE SkipNum(_, _)
SkipNum(buf, p) ==
  IF p > Len(buf) \/ At(buf, p) \in {" ", "-"} THEN p ELSE SkipNum(buf, p + 1)

\* the cursor after one value: both while loops
Advance(buf, i_str) == SkipNum(buf, SkipSep(buf, i_str))

\* zero-based store into a malloc'ed array held as [cap, v]
Store(arr, idx, val) ==
  IF idx + 1 \in 1..Len(arr.v) THEN [arr EXCEPT !.v[idx + 1] = val] ELSE arr

\* one iteration of the for loop: sscanf at the cursor into pshift[i_eng*nl+i],
\* then the cursor moves on.  A failed conversion leaves the cell as it was.
\* r: the conversion, next: the cursor after both while loops
TokStore(t, idx, r, next) ==
  [i_str |-> next,
   i |-> t.i + 1,
   pshift |-> IF r.ok THEN Store(t.pshift, idx, r.val) ELSE t.pshift,
   far |-> IF next > t.far THEN next ELSE t.far]

TokStep(buf, t, i_eng, nl) ==
  TokStore(t, i_eng * nl + t.i, ScanReal(buf, t.i_str), Advance(buf, t.i_str))

RECURSIVE TokLoop(_, _, _, _)
TokLoop(buf, t, i_eng, nl) ==
  IF t.i < nl THEN TokLoop(buf, TokStep(buf, t, i_eng, nl), i_eng, nl) ELSE t

TokStart(pshift) == [i_str |-> 1, i |-> 0, pshift |-> pshift, far |-> 1]

(***************************************************************************)
(* What the build and the memory it runs in leave undefined (ub):          *)
(*   bits      width of size_t: 32 (size_t as wide as int) or 64           *)
(*   hi        sscanf("%d") stores an int into the size_t n_eng and lmax;  *)
(*             with a 64 bit size_t the upper half keeps what the stack    *)
(*             held: "none" (it held zero), "n_eng" or "lmax" (it did not) *)
(*   mallocOK  whether malloc() of a huge block succeeds                   *)
(*   g         the real number found in uninitialised memory               *)
(*   etype     the text found in the uninitialised eng_type[]              *)
(*   fill      the character found in the uninitialised linebuffer[]       *)
(*   null      what reading through the NULL that fgets() returns at the   *)
(*             end of the file does: "trap" (the read faults), "hash" (it  *)
(*             yields '#'), "other" (it yields another character)          *)
(***************************************************************************)
Min(a, b) == IF a < b THEN a ELSE b

\* the size_t that holds an int stored through "%d"
SizeT(v, hi) == IF v < 0 \/ hi THEN Huge ELSE v

\* nl = lmax + 1 in size_t arithmetic
NlOf(lmax, lmax_sz, bits) ==
  IF lmax_sz = Huge THEN (IF lmax = -1 /\ bits = 32 THEN 0 ELSE Huge)
  ELSE lmax_sz + 1

NullArr == [cap |-> -1, v |-> <<>>]

\* malloc(count * sizeof(real)); len cells of it are modelled
Malloc(count, len, ub) ==
  IF count = Huge /\ ~ub.mallocOK THEN NullArr
  ELSE [cap |-> count, v |-> [k \in 1..len |-> ub.g]]

\* n_eng * nl
Product(n_eng, nl) ==
  IF n_eng = 0 \/ nl = 0 THEN 0
  ELSE IF n_eng = Huge \/ nl = Huge THEN Huge ELSE n_eng * nl

\* the comment loop: while( *fgets(linebuffer, STRSZ, inp_stream) == '#');
\* pos is the index of the next unread line of the file
RECURSIVE SkipComments(_, _, _)
SkipComments(file, pos, buf) ==
  IF pos > Len(file) THEN [eof |-> TRUE, pos |-> pos, buf |-> buf]
  ELSE IF Fgets(buf, file[pos])[1] = "#"
         THEN SkipComments(file, pos + 1, Fgets(buf, file[pos]))
         ELSE [eof |-> FALSE, pos |-> pos + 1, buf |-> Fgets(buf, file[pos])]

\* sscanf(linebuffer, "%d %d %s", &n_eng, &lmax, eng_type): count is the
\* number of conversions; without a third one eng_type keeps what it held
HeaderOf(etype, a, b, c) ==
  [count |-> IF ~a.ok THEN 0 ELSE IF ~b.ok THEN 1 ELSE IF ~c.ok THEN 2 ELSE 3,
   n_eng |-> a.val,
   lmax |-> b.val,
   eng_type |-> IF a.ok /\ b.ok /\ c.ok THEN c.val ELSE etype]

ScanHeaderLmax(buf, etype, a, b) == HeaderOf(etype, a, b, ScanStr(buf, b.next))

ScanHeaderEng(buf, etype, a) == ScanHeaderLmax(buf, etype, a, ScanInt(buf, a.next))

ScanHeader(buf, etype) == ScanHeaderEng(buf, etype, ScanInt(buf, 1))

\* !strncmp(eng_type, lit, 2)
Strncmp2Eq(eng_type, lit) ==
  Len(eng_type) >= 2 /\ SubSeq(eng_type, 1, 2) = lit

\* the energy scale chosen from eng_type
EngScale(eng_type) ==
  IF Strncmp2Eq(eng_type, <<"e", "V">>) \/ Strncmp2Eq(eng_type, <<"E", "V">>)
    THEN <<HART_DEN, HART_NUM>>
  ELSE IF Strncmp2Eq(eng_type, <<"R", "y">>) \/ Strncmp2Eq(eng_type, <<"R", "Y">>)
    THEN <<2 * HART_DEN, HART_NUM>>
  ELSE <<1, 1>>

\* the assignment of eng_min and eng_max after energy[i_eng] is stored
MinMax(i_eng, e, eng_min, eng_max) ==
  IF i_eng = 0 THEN [eng_min |-> e, eng_max |-> eng_max]
  ELSE [eng_min |-> eng_min, eng_max |-> e]

\* phs_shifts->energy[i_eng-1] when the phase-shift line is missing; with
\* i_eng = 0 the index wraps and the read is outside the array
LastFull(energy, i_eng, g) ==
  IF i_eng >= 1 /\ i_eng <= Len(energy.v) THEN energy.v[i_eng] ELSE g

\* the value sscanf leaves in energy[i_eng]: the conversion r, or what the
\* malloc'ed cell held
RawEnergy(s, r, g) ==
  IF r.ok THEN r.val
  ELSE IF s.i_eng + 1 <= Len(s.energy.v) THEN s.energy.v[s.i_eng + 1] ELSE g

(***************************************************************************)
(* The read loop over the energies.  s = [i_eng, pos, buf, energy, pshift, *)
(* eng_min, eng_max, end, over]: pos is the index of the next unread line, *)
(* end is "run" while the loop runs, then "done" or "segv"; over: a        *)
(* tokenizer cursor went behind the NUL of its line.                       *)
(***************************************************************************)
\* the phase-shift line b2 was read and tokenized (t): i_eng ++
EngRow(s, b2, t) ==
  [s EXCEPT !.i_eng = s.i_eng + 1, !.pos = s.pos + 2, !.buf = b2,
            !.pshift = t.pshift,
            !.over = s.over \/ t.far > StrEnd(b2, 1)]

\* the for loop over i < nl on the phase-shift line b2; with a huge nl the
\* cursor and the stores leave every mapped page
EngTokens(s, nl, b2) ==
  IF nl = Huge \/ (nl > 0 /\ s.pshift = NullArr)
    THEN [s EXCEPT !.end = "segv", !.buf = b2]
    ELSE EngRow(s, b2, TokLoop(b2, TokStart(s.pshift), s.i_eng, nl))

\* if( fgets(...) != NULL) { tokenize } else { zero the entry, break }
EngPshift(file, s, nl, g) ==
  IF s.pos + 1 <= Len(file)
    THEN EngTokens(s, nl, Fgets(s.buf, file[s.pos + 1]))
    ELSE [s EXCEPT !.end = "done", !.pos = s.pos + 1,
                   !.energy = Store(s.energy, s.i_eng, RZero),
                   !.eng_max = LastFull(s.energy, s.i_eng, g)]

\* energy[i_eng] = e, then eng_min or eng_max
EngEnergy(file, s, nl, g, b1, e) ==
  EngPshift(file,
            [s EXCEPT !.buf = b1,
                      !.energy = Store(s.energy, s.i_eng, e),
                      !.eng_min = MinMax(s.i_eng, e, s.eng_min, s.eng_max).eng_min,
                      !.eng_max = MinMax(s.i_eng, e, s.eng_min, s.eng_max).eng_max],
            nl, g)

\* the loop body after the energy line b1 was read
EngBody(file, s, nl, eng_scale, g, b1) ==
  EngEnergy(file, s, nl, g, b1, RMul(RawEnergy(s, ScanReal(b1, 1), g), eng_scale))

RECURSIVE EngLoop(_, _, _, _, _, _)
EngNext(file, s, n_eng, nl, eng_scale, g) ==
  IF s.end = "run" THEN EngLoop(file, s, n_eng, nl, eng_scale, g) ELSE s

EngLoop(file, s, n_eng, nl, eng_scale, g) ==
  IF ~(s.i_eng < n_eng /\ s.pos <= Len(file)) THEN [s EXCEPT !.end = "done"]
  ELSE IF s.energy = NullArr THEN [s EXCEPT !.end = "segv"]
  ELSE EngNext(file, EngBody(file, s, nl, eng_scale, g, Fgets(s.buf, file[s.pos])),
               n_eng, nl, eng_scale, g)

\* the record written when n_eng differs from the declared count:
\* WARNING_MSG(..., n_eng, i_eng+1, filename)
Warning(n_eng, i_eng) == [expected |-> n_eng, found |-> i_eng + 1]
NoWarning == [expected |-> -1, found |-> -1]

\* the result of a call that ends before the header is read
NoLoad(end) ==
  [end |-> end, lmax |-> 0, n_eng |-> 0, energy |-> NullArr, pshift |-> NullArr,
   eng_min |-> RZero, eng_max |-> RZero, warn |-> NoWarning, declared |-> 0,
   nl |-> 0, eng_scale |-> <<1, 1>>, eng_type |-> <<>>, over |-> FALSE,
   written |-> FALSE]

\* what the call wrote through phs_shifts and how it ended, from the header
\* h and the final state s of the read loop
ReadResult(h, n_eng, nl, eng_scale, s) ==
  [end |-> IF s.end = "segv" THEN "segv" ELSE "returned",
   lmax |-> h.lmax,
   n_eng |-> s.i_eng,
   energy |-> s.energy,
   pshift |-> s.pshift,
   eng_min |-> s.eng_min,
   eng_max |-> s.eng_max,
   warn |-> IF s.end # "segv" /\ s.i_eng # n_eng
              THEN Warning(h.n_eng, s.i_eng) ELSE NoWarning,
   declared |-> h.n_eng,
   nl |-> nl,
   eng_scale |-> eng_scale,
   eng_type |-> h.eng_type,
   over |-> s.over,
   written |-> TRUE]

\* the two malloc() and the read loop; rows: the rows of the tables modelled
ReadTable(file, ub, c, h, n_eng, nl, eng_scale, rows) ==
  ReadResult(h, n_eng, nl, eng_scale,
             EngLoop(file,
                     [i_eng |-> 0, pos |-> c.pos, buf |-> c.buf,
                      energy |-> Malloc(n_eng, rows, ub),
                      pshift |-> Malloc(Product(n_eng, nl),
                                        IF nl = Huge THEN 0 ELSE rows * nl, ub),
                      eng_min |-> ub.g, eng_max |-> ub.g, end |-> "run",
                      over |-> FALSE],
                     n_eng, nl, eng_scale, ub.g))

\* the header line: fewer than two integers is the format error
ReadSizes(file, ub, c, h) ==
  IF h.count < 2 THEN NoLoad("exit_format")
  ELSE ReadTable(file, ub, c, h,
                 SizeT(h.n_eng, ub.hi = "n_eng"),
                 NlOf(h.lmax, SizeT(h.lmax, ub.hi = "lmax"), ub.bits),
                 EngScale(h.eng_type),
                 Min(SizeT(h.n_eng, ub.hi = "n_eng"), Len(file)))

\* if ( linebuffer == NULL): linebuffer is an array of the function, its
\* address is never NULL
LinebufferIsNull == FALSE

\* after the comment loop.  At the end of the file fgets() returned NULL and
\* the loop condition read through it: the read faults, or it yields '#'
\* and the loop runs on for ever (fgets() keeps returning NULL), or it
\* yields another character and the call goes on with linebuffer as the
\* last line read left it.
ReadHeader(file, ub, c) ==
  IF c.eof /\ ub.null = "trap" THEN NoLoad("segv")
  ELSE IF c.eof /\ ub.null = "hash" THEN NoLoad("hang")
  ELSE IF LinebufferIsNull THEN NoLoad("exit_eof")
  ELSE ReadSizes(file, ub, c, ScanHeader(c.buf, ub.etype))

\* Everything leed_inp_phase does with the opened file.  The result names
\* how the call ends ("returned", "exit_format", "exit_eof", "segv", "hang") and what was
\* written through phs_shifts.
ReadFile(file, ub) == ReadHeader(file, ub, SkipComments(file, 1, FreshBuffer(ub.fill)))

(***************************************************************************)
(* The list of phase shifts and the static counter i_phase.                *)
(*                                                                         *)
(* list models the heap block *p_phs_shifts: one leed_phase per cell.      *)
(* A cell that malloc()/realloc() hands out holds whatever the heap held   *)
(* (ub.heap): "zero" an all-zero cell with an empty input_file, "stale" a  *)
(* cell that happens to hold the identity of file /a with displacement 0,  *)
(* "wild" a cell whose input_file cannot be read as a string.              *)
(***************************************************************************)
I_END_OF_LIST == -9999
BadPtr == <<"BADPTR">>
NoEnv == <<"NOENV">>

HeapCell(ub) ==
  [input_file |-> CASE ub.heap = "zero" -> <<>>
                    [] ub.heap = "stale" -> <<"/", "a">>
                    [] OTHER -> BadPtr,
   dr |-> <<0, 0, 0, 0>>, lmax |-> 0, n_eng |-> 0,
   energy |-> NullArr, pshift |-> NullArr,
   eng_min |-> IF ub.heap = "zero" THEN RZero ELSE ub.g,
   eng_max |-> IF ub.heap = "zero" THEN RZero ELSE ub.g]

\* the memory phs_shifts points into before the call writes to it
ForeignCell(ub) ==
  [input_file |-> BadPtr, dr |-> <<0, 0, 0, 0>>, lmax |-> 0, n_eng |-> 0,
   energy |-> NullArr, pshift |-> NullArr, eng_min |-> ub.g, eng_max |-> ub.g]

\* EnvMissing with the test for an absolute name left out
EnvMissingAnyName(phaseinp, env) == env = NoEnv

\* *phaseinp != '/' and getenv("CLEED_PHASE") == NULL
EnvMissing(phaseinp, env) == At(phaseinp, 1) # "/" /\ env = NoEnv

\* the sprintf into filename
FileName(phaseinp, env) ==
  IF At(phaseinp, 1) # "/"
    THEN env \o <<"/">> \o phaseinp \o <<".", "p", "h", "s">>
    ELSE phaseinp

Abs(v) == IF v < 0 THEN -v ELSE v

\* the condition of the if inside the scan of the list
Matches(cell, filename, dr) ==
  /\ cell.input_file = filename
  /\ Abs(dr[2] - cell.dr[2]) < GEO_TOLERANCE
  /\ Abs(dr[3] - cell.dr[3]) < GEO_TOLERANCE
  /\ Abs(dr[4] - cell.dr[4]) < GEO_TOLERANCE

\* for(i=0; i < i_phase; i++) ... return(i): the index of the first match,
\* -1 when the loop ends without one, -2 when strcmp() reads a wild pointer
RECURSIVE ScanList(_, _, _, _, _)
ScanList(cells, i, n, filename, dr) ==
  IF i >= n THEN -1
  ELSE IF cells[i + 1].input_file = BadPtr THEN -2
  ELSE IF Matches(cells[i + 1], filename, dr) THEN i
  ELSE ScanList(cells, i + 1, n, filename, dr)

\* i_phase ++ and realloc (i_phase + 1 cells) or malloc (2 cells), then
\* (*(p_phs_shifts) + i_phase)->lmax = I_END_OF_LIST; n is i_phase before
Grow(cells, n, ub) ==
  LET grown == IF n > 0 THEN Append(cells, HeapCell(ub))
               ELSE <<HeapCell(ub), HeapCell(ub)>>
  IN [grown EXCEPT ![n + 2].lmax = I_END_OF_LIST]

\* NewIndex returning the incremented counter itself
NewIndexCount(n) == n

\* return(i_phase - 1), i_phase already incremented
NewIndex(n) == n - 1

\* what the call writes through phs_shifts = &p_phs_shifts[i_phase-1]:
\* dr, then (the file open) input_file, then (the header read) the table
WriteDr(cell, dr) == [cell EXCEPT !.dr = dr]
WriteName(cell, filename) == [cell EXCEPT !.input_file = filename]
WriteTable(cell, r) ==
  IF ~r.written THEN cell
  ELSE [cell EXCEPT !.lmax = r.lmax, !.n_eng = r.n_eng, !.energy = r.energy,
                    !.pshift = r.pshift, !.eng_min = r.eng_min,
                    !.eng_max = r.eng_max]

\* the cell of the list that the assignment to phs_shifts selects, as an
\* index into list: &p_phs_shifts[i_phase-1] is an address in the caller's
\* array of pointers, not a cell of *p_phs_shifts, so no cell of the list
\* is selected (0)
TargetCell(n) == 0

NoFile == <<"NOFILE">>

VARIABLES
  env,         \* the value of CLEED_PHASE, or NoEnv
  fs,          \* the file system: file name -> lines, or NoFile
  ub,          \* what build and memory leave undefined
  i_phase,     \* static size_t i_phase
  list,        \* the cells of *p_phs_shifts
  phs_shifts,  \* the memory written through the local pointer phs_shifts
  status,      \* "idle", "returned", "exit_env", "exit_open", "exit_format",
               \* "exit_eof", "segv", "hang"
  ret,         \* the value returned by the last call that returned
  streams,     \* FILE streams opened and not closed
  calls,       \* number of calls made
  last,        \* the last call: arguments and what it did
  tok,         \* the tokenizer run on its own
  given        \* what the input under test was built from

vars == <<env, fs, ub, i_phase, list, phs_shifts, status, ret, streams, calls, last, tok, given>>

NoCall ==
  [valid |-> FALSE, phaseinp |-> <<>>, filename |-> <<>>, dr |-> <<0, 0, 0, 0>>,
   before |-> 0, hit |-> FALSE, opened |-> FALSE, found |-> -1,
   earlier |-> {}, seen |-> {}, load |-> NoLoad("none")]

Lookup(files, filename) ==
  IF filename \in DOMAIN files THEN files[filename] ELSE NoFile

(***************************************************************************)
(* leed_inp_phase(phaseinp, dr, p_phs_shifts): the whole call.             *)
(***************************************************************************)
\* the record of the call kept in last
CallRecord(phaseinp, dr, filename, found) ==
  [valid |-> TRUE, phaseinp |-> phaseinp, filename |-> filename, dr |-> dr,
   before |-> i_phase, hit |-> FALSE, opened |-> FALSE, found |-> found,
   earlier |-> IF status = "returned" THEN last.earlier \cup {ret} ELSE last.earlier,
   seen |-> IF status = "returned" THEN last.seen \cup {<<last.filename, last.dr>>}
            ELSE last.seen,
   load |-> NoLoad("none")]

\* no match: a new cell, the file is opened and read (r)
LoadNew(call, grown, cell, file, r) ==
  /\ i_phase' = i_phase + 1
  /\ IF file = NoFile
       THEN /\ status' = "exit_open"
            /\ list' = grown
            /\ phs_shifts' = cell
            /\ last' = call
            /\ UNCHANGED <<ret, streams>>
       ELSE /\ status' = r.end
            /\ streams' = streams + 1
            /\ phs_shifts' = WriteTable(WriteName(cell, call.filename), r)
            /\ list' = IF TargetCell(i_phase + 1) = 0 THEN grown
                       ELSE [grown EXCEPT ![TargetCell(i_phase + 1)] =
                                WriteTable(WriteName(cell, call.filename), r)]
            /\ last' = [call EXCEPT !.opened = TRUE, !.load = r]
            /\ ret' = IF r.end = "returned" THEN NewIndex(i_phase + 1) ELSE ret

\* after the file name is made: the scan of the list, then the load
Resolved(call, file) ==
  IF call.found >= 0
    THEN /\ status' = "returned"
         /\ ret' = call.found
         /\ last' = [call EXCEPT !.hit = TRUE]
         /\ UNCHANGED <<i_phase, list, phs_shifts, streams>>
  ELSE IF call.found = -2
    THEN /\ status' = "segv"
         /\ last' = call
         /\ UNCHANGED <<i_phase, list, phs_shifts, ret, streams>>
  ELSE LoadNew(call, Grow(list, i_phase, ub), WriteDr(ForeignCell(ub), call.dr), file,
               IF file = NoFile THEN NoLoad("none") ELSE ReadFile(file, ub))

leed_inp_phase(phaseinp, dr) ==
  /\ status \in {"idle", "returned"}
  /\ calls < MaxCalls
  /\ calls' = calls + 1
  /\ UNCHANGED <<env, fs, ub, tok, given>>
  /\ IF EnvMissing(phaseinp, env)
       THEN /\ status' = "exit_env"
            /\ last' = CallRecord(phaseinp, dr, <<>>, -1)
            /\ UNCHANGED <<i_phase, list, phs_shifts, ret, streams>>
       ELSE Resolved(CallRecord(phaseinp, dr, FileName(phaseinp, env),
                                IF i_phase > 0
                                  THEN ScanList(list, 0, i_phase, FileName(phaseinp, env), dr)
                                  ELSE -1),
                     Lookup(fs, FileName(phaseinp, env)))

(***************************************************************************)
(* Inputs.                                                                 *)
(***************************************************************************)
\* the garbage reals of uninitialised memory
GarbageReals == {<<7, 1>>, <<0, 1>>}

BenignUB ==
  [bits |-> 64, hi |-> "none", mallocOK |-> TRUE, g |-> <<7, 1>>,
   etype |-> <<>>, fill |-> "x", heap |-> "zero", null |-> "trap"]

\* the displacements callers pass: dr[0] is not used by the comparison
DrVecs ==
  {<<0, a, 0, 0>> : a \in 0..MaxDr}
    \cup {<<0, 0, MaxDr, 0>>, <<0, 0, 0, MaxDr>>, <<1, 0, 0, 0>>}

NameA == <<"/", "a">>
NameB == <<"b">>
NameX == <<"/", "x">>
Names == {NameA, NameB, NameX}
DirD == <<"/", "d">>

\* /a: two energies in eV, both present, after a comment line
FileA ==
  << <<"#", "c">>, <<"2", " ", "1", " ", "e", "V">>,
     <<"1", ".", "5">>, <<"1", ".", "5", "-", "2">>,
     <<"3">>, <<" ", "1", " ", "2">> >>

\* /d/b.phs: two energies declared, the file ends after the second energy line
FileB ==
  << <<"2", " ", "0">>, <<"1">>, <<"-", "1">>, <<"2">> >>

Files0 == (FileName(NameA, DirD) :> FileA) @@ (FileName(NameB, DirD) :> FileB)

TokIdle == [pc |-> "off"]
NothingGiven == [kind |-> "files"]

Init ==
  /\ env \in {NoEnv, DirD}
  /\ fs = Files0
  /\ ub \in {[BenignUB EXCEPT !.heap = h] : h \in {"zero", "stale", "wild"}}
  /\ i_phase = 0
  /\ list = <<>>
  /\ phs_shifts = ForeignCell(ub)
  /\ status = "idle"
  /\ ret = -1
  /\ streams = 0
  /\ calls = 0
  /\ last = NoCall
  /\ tok = TokIdle
  /\ given = NothingGiven

Next == \E phaseinp \in Names, dr \in DrVecs : leed_inp_phase(phaseinp, dr)

Spec == Init /\ [][Next]_vars

(***************************************************************************)
(* The loader on its own: one call on an empty list, for every file of     *)
(* ParseInputs and every ub of ParseUBs.                                   *)
(*                                                                         *)
(* A file is built from: comments (number of leading comment lines), the   *)
(* header (n, lmax and a unit token, or a malformed line), pairs complete  *)
(* energy/phase-shift line pairs, and dangling (1: an energy line without  *)
(* its phase-shift line ends the file).  The values of the numerals are    *)
(* written down here by hand, not computed by the scanner.                 *)
(***************************************************************************)
\* the energy lines of the files, in order, and the values they denote
EnergyText == << <<"1", ".", "5">>, <<" ", "3">>, <<"-", "2", "e", "1">>, <<"4">> >>
EnergyValue == << <<3, 2>>, <<3, 1>>, <<-20, 1>>, <<4, 1>> >>

\* the phase-shift lines: two values each
PhaseText ==
  << <<"1", ".", "5", "-", "2">>, <<" ", "1", " ", "2">>,
     <<"-", "1", "-", "3">>, <<"2", " ", "-", ".", "5">> >>
PhaseValue ==
  << <<<<3, 2>>, <<-2, 1>>>>, <<<<1, 1>>, <<2, 1>>>>,
     <<<<-1, 1>>, <<-3, 1>>>>, <<<<2, 1>>, <<-1, 2>>>> >>

IntText(v) ==
  CASE v = -2 -> <<"-", "2">> [] v = -1 -> <<"-", "1">> [] v = 0 -> <<"0">>
    [] v = 1 -> <<"1">> [] v = 2 -> <<"2">> [] v = 3 -> <<"3">> [] v = 4 -> <<"4">>

NoToken == <<>>
UnitTokens ==
  {NoToken, <<"e", "V">>, <<"E", "V">>, <<"e", "v">>, <<"E", "v">>,
   <<"R", "y">>, <<"R", "Y">>, <<"r", "y">>, <<"r", "Y">>,
   <<"e", "V", "x">>, <<"R", "y", "d">>, <<"H">>, <<"e">>, <<"x", "e", "V">>}

HeaderText(n, lmax, token) ==
  IntText(n) \o <<" ">> \o IntText(lmax)
    \o (IF token = NoToken THEN <<>> ELSE <<" ">> \o token)

\* header lines with fewer than two integers
BadHeaders == {<<>>, <<"2">>, <<"x", " ", "1">>, <<"2", " ", "e", "V">>}

RECURSIVE Body(_, _)
Body(pairs, dangling) ==
  IF pairs = 0 THEN (IF dangling = 1 THEN <<EnergyText[1]>> ELSE <<>>)
  ELSE Body(pairs - 1, 0) \o <<EnergyText[pairs], PhaseText[pairs]>>
         \o (IF dangling = 1 THEN <<EnergyText[pairs + 1]>> ELSE <<>>)

Comments(k) == [j \in 1..k |-> <<"#", " ", "c">>]

ParseGiven ==
  [kind : {"header"}, comments : {0, 1}, n : (-1)..MaxEng, lmax : (-1)..1,
   token : UnitTokens, pairs : 0..(MaxEng + 1), dangling : {0, 1}, bad : {<<>>}]
    \cup
  [kind : {"bad"}, comments : {0, 1, 2}, n : {0}, lmax : {0}, token : {NoToken},
   pairs : {0, 1}, dangling : {0}, bad : BadHeaders]
    \cup
  [kind : {"empty"}, comments : {0, 1, 2}, n : {0}, lmax : {0}, token : {NoToken},
   pairs : {0}, dangling : {0}, bad : {<<>>}]

\* the pairs and the dangling line fit the hand-written lines
ParseInputs == {gv \in ParseGiven : gv.pairs + gv.dangling <= Len(EnergyText)}

FileOf(gv) ==
  Comments(gv.comments)
    \o (CASE gv.kind = "header" -> <<HeaderText(gv.n, gv.lmax, gv.token)>>
          [] gv.kind = "bad" -> <<gv.bad>>
          [] OTHER -> <<>>)
    \o (IF gv.kind = "empty" THEN <<>> ELSE Body(gv.pairs, gv.dangling))

ParseUBs ==
  {BenignUB,
   [BenignUB EXCEPT !.bits = 32],
   [BenignUB EXCEPT !.hi = "n_eng"],
   [BenignUB EXCEPT !.hi = "n_eng", !.mallocOK = FALSE],
   [BenignUB EXCEPT !.hi = "lmax"],
   [BenignUB EXCEPT !.mallocOK = FALSE],
   [BenignUB EXCEPT !.g = <<0, 1>>],
   [BenignUB EXCEPT !.etype = <<"e", "V">>],
   [BenignUB EXCEPT !.etype = <<"R", "Y", "d">>],
   [BenignUB EXCEPT !.fill = " "],
   [BenignUB EXCEPT !.null = "hash"],
   [BenignUB EXCEPT !.null = "other"],
   [BenignUB EXCEPT !.null = "other", !.fill = " "]}

InitParse ==
  /\ env = NoEnv
  /\ given \in ParseInputs
  /\ fs = (NameA :> FileOf(given))
  /\ ub \in ParseUBs
  /\ i_phase = 0
  /\ list = <<>>
  /\ phs_shifts = ForeignCell(ub)
  /\ status = "idle"
  /\ ret = -1
  /\ streams = 0
  /\ calls = 0
  /\ last = NoCall
  /\ tok = TokIdle

NextParse == calls = 0 /\ leed_inp_phase(NameA, <<0, 0, 0, 0>>)

SpecParse == InitParse /\ [][NextParse]_vars

(***************************************************************************)
(* The tokenizer on its own: the for loop over i < nl on one line, one     *)
(* iteration per step.  A line is built from numerals (nums, indices into  *)
(* NumText) and the separators in front of each (seps); the values of the  *)
(* numerals are written down by hand.                                      *)
(***************************************************************************)
NumText ==
  << <<"1">>, <<"-", "2">>, <<"1", ".", "5">>, <<"-", ".", "5">>,
     <<"2", "e", "1">>, <<"1", "e", "-", "1">> >>
NumValue == << <<1, 1>>, <<-2, 1>>, <<3, 2>>, <<-1, 2>>, <<20, 1>>, <<1, 10>> >>

Separators == {<<>>, <<" ">>}

RECURSIVE LineOf(_, _, _)
LineOf(nums, seps, k) ==
  IF k = 0 THEN <<>> ELSE LineOf(nums, seps, k - 1) \o seps[k] \o NumText[nums[k]]

\* what linebuffer held before the line was read: the uninitialised array
\* ("x": no separator in it, " ": blanks) or an earlier, longer line
StaleBuffer(stale) ==
  IF stale = "line"
    THEN Fgets(FreshBuffer("x"), [k \in 1..(BufLen - 2) |-> IF k % 2 = 1 THEN "9" ELSE " "])
    ELSE FreshBuffer(stale)

\* a numeral follows its predecessor without a blank only if it is negative
Separated(nums, seps) ==
  \A k \in 2..Len(nums) : seps[k] # <<>> \/ NumText[nums[k]][1] = "-"

TokInputs ==
  {gv \in UNION {[kind : {"line"}, nums : [1..k -> 1..Len(NumText)],
                  seps : [1..k -> Separators], nl : 1..MaxNl, i_eng : {0, 1},
                  stale : {"x", " ", "line"}] : k \in 0..MaxNl} :
     Separated(gv.nums, gv.seps)}

InitTok ==
  /\ given \in TokInputs
  /\ tok = [pc |-> "run",
            buf |-> Fgets(StaleBuffer(given.stale),
                          LineOf(given.nums, given.seps, Len(given.nums))),
            nl |-> given.nl,
            i_eng |-> given.i_eng,
            t |-> TokStart(Malloc((given.i_eng + 1) * given.nl,
                                  (given.i_eng + 1) * given.nl, BenignUB))]
  /\ env = NoEnv
  /\ fs = <<>>
  /\ ub = BenignUB
  /\ i_phase = 0
  /\ list = <<>>
  /\ phs_shifts = ForeignCell(ub)
  /\ status = "idle"
  /\ ret = -1
  /\ streams = 0
  /\ calls = 0
  /\ last = NoCall

\* one iteration of for( i_str = 0, i = 0; i<nl; i++)
TokIterate ==
  /\ tok.pc = "run"
  /\ tok.t.i < tok.nl
  /\ tok' = [tok EXCEPT !.t = TokStep(tok.buf, tok.t, tok.i_eng, tok.nl),
                        !.pc = IF tok.t.i + 1 < tok.nl THEN "run" ELSE "done"]
  /\ UNCHANGED <<env, fs, ub, i_phase, list, phs_shifts, status, ret, streams, calls,
                 last, given>>

SpecTok == InitTok /\ [][TokIterate]_vars

(***************************************************************************)
(* Properties of the list (checked under Spec).                            *)
(***************************************************************************)
\* two displacements agree within the tolerance on components 1..3
Close(d1, d2) == \A k \in 2..4 : Abs(d1[k] - d2[k]) < GEO_TOLERANCE

\* C1: a call that follows a returned call with the same resolved path and
\* a displacement within the tolerance returns the same index, which is the
\* index of the first matching cell, opens no file and leaves the count of
\* records unchanged.
C1_SameIndexTwice ==
  [][(/\ calls' = calls + 1
      /\ status = "returned"
      /\ last'.filename = last.filename
      /\ Close(last.dr, last'.dr))
       => (/\ status' = "returned"
           /\ ret' = ret
           /\ last'.hit
           /\ ~last'.opened
           /\ streams' = streams
           /\ i_phase' = i_phase
           /\ Matches(list[ret' + 1], last'.filename, last'.dr)
           /\ \A k \in 1..ret' : ~Matches(list[k], last'.filename, last'.dr))]_vars

C3_OneRecordPerIdentity ==
  status = "returned"
    => \A i, j \in 1..i_phase :
         i < j => ~(list[i].input_file = list[j].input_file /\ Close(list[i].dr, list[j].dr))

\* the cell holds what the call was given and what it read
HoldsLoad(cell, call) ==
  /\ cell.input_file = call.filename
  /\ cell.dr = call.dr
  /\ cell.lmax = call.load.lmax
  /\ cell.n_eng = call.load.n_eng
  /\ cell.energy = call.load.energy
  /\ cell.pshift = call.load.pshift
  /\ cell.eng_min = call.load.eng_min
  /\ cell.eng_max = call.load.eng_max

\* C4: no call lowers the record count or changes a record appended
\* before it, and a load stores its table in the record at the index it
\* returns.
C4_AppendOnlyStoredAtIndex ==
  [][calls' = calls + 1
       => (/\ i_phase' >= i_phase
           /\ \A k \in 1..i_phase : list'[k] = list[k]
           /\ (status' = "returned" /\ ~last'.hit)
                => HoldsLoad(list'[ret' + 1], last'))]_vars

\* C9: a call with a relative name and no CLEED_PHASE ends with the
\* configuration error, having opened no file, scanned nothing and changed
\* neither the count nor the list; a call with an absolute name never ends
\* that way and uses the name as the file name.
C9_EnvCheckedFirst ==
  [][calls' = calls + 1
       => IF At(last'.phaseinp, 1) # "/" /\ env = NoEnv
            THEN /\ status' = "exit_env"
                 /\ ~last'.opened
                 /\ last'.found = -1
                 /\ UNCHANGED <<streams, i_phase, list, ret, phs_shifts>>
            ELSE /\ status' # "exit_env"
                 /\ At(last'.phaseinp, 1) = "/" => last'.filename = last'.phaseinp]_vars

\* C9 witness: the configuration error struck with records in the list,
\* which calls with absolute names put there without any CLEED_PHASE.
C9_Witness ==
  /\ status = "exit_env"
  /\ env = NoEnv
  /\ At(last.phaseinp, 1) # "/"
  /\ i_phase >= 1

(***************************************************************************)
(* Properties of the loader (checked under SpecParse).                     *)
(***************************************************************************)
Lower(c) ==
  CASE c = "E" -> "e" [] c = "V" -> "v" [] c = "R" -> "r" [] c = "Y" -> "y"
    [] OTHER -> c

\* the scale the unit token stands for when its first two characters are
\* compared without regard to case
ScaleOfToken(token) ==
  IF Len(token) >= 2 /\ <<Lower(token[1]), Lower(token[2])>> = <<"e", "v">>
    THEN <<HART_DEN, HART_NUM>>
  ELSE IF Len(token) >= 2 /\ <<Lower(token[1]), Lower(token[2])>> = <<"r", "y">>
    THEN <<2 * HART_DEN, HART_NUM>>
  ELSE <<1, 1>>

\* C5: the scale depends only on the first two characters of the unit
\* token, compared case-insensitively (1/HART for "ev", 2/HART for "ry", 1
\* for any other or no token), and every stored energy is the raw value
\* times that scale.
C5_ScaleCaseInsensitive ==
  (status = "returned" /\ given.kind = "header" /\ given.n >= 1 /\ given.lmax >= 0)
    => /\ REq(last.load.eng_scale, ScaleOfToken(given.token))
       /\ \A i \in 1..phs_shifts.n_eng :
            REq(phs_shifts.energy.v[i], RMul(EnergyValue[i], ScaleOfToken(given.token)))

\* C6: a file that declares n >= 1 energies and ends after k < n complete
\* pairs (with or without a further energy line) makes the call return the
\* new record's index, with the record's energy count k and a warning; and
\* a warning is emitted exactly when the energy count differs from n.
C6_TruncationRecoverable ==
  (calls = 1 /\ given.kind = "header" /\ given.lmax >= 0 /\ given.n >= 1)
    => /\ given.pairs < given.n
         => /\ status = "returned"
            /\ ret = last.before
            /\ list[ret + 1].n_eng = given.pairs
            /\ last.load.warn # NoWarning
       /\ status = "returned"
         => (last.load.warn # NoWarning <=> list[ret + 1].n_eng # given.n)

\* C7: after a load that read an energy, eng_min is the first energy read
\* and eng_max the last energy read completely, for every declared count
\* n >= 1 and every truncation point.
C7_MinFirstMaxLast ==
  (/\ status = "returned" /\ given.kind = "header" /\ given.lmax >= 0 /\ given.n >= 1
   /\ given.pairs + given.dangling >= 1)
    => /\ REq(phs_shifts.eng_min, RMul(EnergyValue[1], last.load.eng_scale))
       /\ phs_shifts.n_eng >= 1
            => REq(phs_shifts.eng_max, phs_shifts.energy.v[phs_shifts.n_eng])

\* C10: the record of every accepted header has lmax + 1 >= 1 channels and
\* a phase-shift table of n_eng * (lmax + 1) cells, n_eng the energy count
\* stored in the record.
C10_TableShape ==
  (status = "returned" /\ given.kind = "header")
    => /\ phs_shifts.lmax + 1 >= 1
       /\ phs_shifts.pshift.cap = phs_shifts.n_eng * (phs_shifts.lmax + 1)

(***************************************************************************)
(* Properties of the tokenizer (checked under SpecTok).                    *)
(***************************************************************************)
\* the numeral has no minus sign behind its first character
NoInnerMinus(k) == \A j \in 2..Len(NumText[k]) : NumText[k][j] # "-"

\* row i_eng of the table holds the values of the numerals of the line, in
\* order, and the rows before it are as they were
RowHoldsLine ==
  /\ \A i \in 1..tok.nl :
       REq(tok.t.pshift.v[tok.i_eng * tok.nl + i], NumValue[given.nums[i]])
  /\ \A j \in 1..(tok.i_eng * tok.nl) : tok.t.pshift.v[j] = BenignUB.g

\* C8 (as claimed): for a line of nl numerals, separated by blanks or only
\* by the minus sign of the next numeral, the tokenizer stores exactly their
\* values, in order and with their signs, in row i_eng.
C8_AnyNumerals ==
  (tok.pc = "done" /\ Len(given.nums) = tok.nl) => RowHoldsLine

\* C8 (amended): the same, for lines in which no numeral but the last has a
\* minus sign behind its first character (no negative exponent).
C8_PlainNumerals ==
  (/\ tok.pc = "done" /\ Len(given.nums) = tok.nl
   /\ \A k \in 1..(tok.nl - 1) : NoInnerMinus(given.nums[k]))
    => RowHoldsLine

\* C8 witness: "1.5-2" was tokenized into row 1 as 1.5 and -2.
C8_Witness ==
  /\ tok.pc = "done"
  /\ tok.nl = 2
  /\ tok.i_eng = 1
  /\ given.nums = <<3, 2>>
  /\ given.seps[2] = <<>>
  /\ tok.t.pshift.v[3] = <<15, 10>>
  /\ tok.t.pshift.v[4] = <<-2, 1>>

(***************************************************************************)
(* Properties of the header, the stream and the warning (SpecParse).       *)
(***************************************************************************)
\* C11: after the leading comment lines, a first line with fewer than two
\* integers ends the call with the format error, and a file with no line
\* but comment lines (or no line at all) ends it with the unexpected-EOF
\* error; neither returns an index.
C11_HeaderErrors ==
  calls = 1
    => /\ given.kind = "bad" => (status = "exit_format" /\ ret = -1)
       /\ given.kind = "empty" => (status = "exit_eof" /\ ret = -1)

\* C12: a call that returns (with a complete or a truncated table) or
\* ends with the format error leaves no stream open: after any sequence of
\* calls the number of open streams is zero.
C12_NoStreamLeftOpen ==
  status \in {"returned", "exit_format"} => streams = 0

(***************************************************************************)
(* Properties of the tokenizer's cursor (checked under SpecTok).           *)
(***************************************************************************)
\* C13: while a phase-shift line is tokenized the cursor i_str never goes
\* past the character that terminates the line, and a value is stored only
\* for a numeral of the line: a channel the line has no numeral for keeps
\* what its cell held.
C13_CursorWithinLine ==
  tok.pc \in {"run", "done"}
    => /\ tok.t.far <= StrEnd(tok.buf, 1)
       /\ \A i \in 1..tok.t.i :
            i > Len(given.nums)
              => tok.t.pshift.v[tok.i_eng * tok.nl + i] = BenignUB.g

(***************************************************************************)
(* The warning (checked under SpecParse) and the terminator (Spec).        *)
(***************************************************************************)
\* C14: a truncation warning reports as found the energy count stored by
\* the load and as expected the count declared in the header, whether the
\* file ends before an energy line or before a phase-shift line.
C14_WarningCounts ==
  (/\ status = "returned" /\ given.kind = "header" /\ given.lmax >= 0 /\ given.n >= 1
   /\ last.load.warn # NoWarning)
    => /\ last.load.warn.found = phs_shifts.n_eng
       /\ last.load.warn.expected = given.n

\* C15: after a call that appended a record and returned, the cell at the
\* index equal to the record count carries lmax = I_END_OF_LIST, it is the
\* last of the record count + 1 allocated cells, and no cell below the
\* record count carries the marker.
C15_ListTerminated ==
  (status = "returned" /\ ~last.hit)
    => /\ Len(list) = i_phase + 1
       /\ list[i_phase + 1].lmax = I_END_OF_LIST
       /\ \A k \in 1..i_phase : list[k].lmax # I_END_OF_LIST
=============================================================================
